---- MODULE Spec2Model ----
(***************************************************************************)
(* VoiceGenie backend: the chat session engine (handlers/chat.go), the     *)
(* token-bucket rate limiter (middleware/ratelimit.go) and the middleware  *)
(* chain and routes the server installs (api server, setupMiddleware and   *)
(* setupRoutes).                                                           *)
(*                                                                         *)
(* Every database call of a handler is a separate step, so that requests   *)
(* handled by different goroutines interleave between any two calls.       *)
(***************************************************************************)
EXTENDS Integers, Sequences, FiniteSets, TLC

\* ------------------------------------------------------------------------
\* Bounds of the model
\* ------------------------------------------------------------------------
NumWorkers == 2        \* goroutines serving requests / connections
MaxExchanges == 2      \* requests that reach a chat handler (or frames read)
MaxDbFailures == 1     \* database calls that may return an error
PriorExchanges == 10   \* completed exchanges already stored in conversation 1
NumUsers == 2
MaxCap == 2            \* bucket model: largest capacity
MaxRefill == 2         \* bucket model: largest refill interval (ticks)
BucketMaxTime == 5     \* bucket model: ticks of the clock
MaxCalls == 5          \* bucket model: Allow calls recorded
MaxRequestsPerMinute == 3   \* largest parameter of ExpensiveOperationLimit
NumClients == 2             \* client addresses that send requests concurrently
MaxClock == 9               \* registry lifetime model: ticks of the clock

\* ------------------------------------------------------------------------
\* Program constants
\* ------------------------------------------------------------------------
ContextLimit == 20          \* Limit(20) in getConversationMessages
MaxMessageLength == 1000    \* config.AI.MaxMessageLength
CfgMaxRequests == 2         \* config.RateLimit.MaxRequests (RATE_LIMIT_MAX_REQUESTS)
CfgWindowDuration == 2      \* config.RateLimit.WindowDuration, in ticks (RATE_LIMIT_WINDOW)
Minute == 60                \* time.Minute, in seconds
NumChunks == 8              \* len(responseChunks) in callOpenAIStream
SweepPeriod == 4            \* time.NewTicker(1 * time.Hour), in ticks of a quarter hour

Workers == 1..NumWorkers
Users == 1..NumUsers
IPs == {1}                  \* client addresses: the clients share one address
NoUser == 0                 \* the empty user id ""
NoConv == 0                 \* the empty conversation id ""
Routes == {"send", "stream", "ws", "clear"}
ReqConvs == {NoConv, 1}     \* conversation ids a request may name
MsgLens == {0, 1, MaxMessageLength + 1}   \* len(req.Message)

VARIABLES
    now,             \* time.Now(), in ticks
    globalLimiters,  \* globalLimiters: identifier -> RateLimiter
    conversations,   \* table conversations; the id is the index
    messages,        \* table messages in insertion order; the id is the index
    usages,          \* table usages
    dbFailures,      \* database errors returned so far
    wk,              \* per goroutine: position in the middleware chain / handler
    ex,              \* per exchange: the handler's locals and what it has done
    bucket,          \* bucket model: one RateLimiter
    allowLog,        \* bucket model: the Allow calls made on it
    requestsPerMinute,  \* ExpensiveOperationLimit: its parameter
    expensiveLimiters,  \* ExpensiveOperationLimit: its map identifier -> RateLimiter
    responses,       \* ExpensiveOperationLimit: the responses it let through or sent
    mutex,           \* RateLimiter.mutex: the goroutine holding it, 0 when unlocked
    calls,           \* per goroutine: its position in Allow and Allow's locals
    stream,          \* callOpenAIStream: its position, its locals and the client's end
    heap,            \* registry model: the RateLimiter objects allocated, by address
    limiterMutex,    \* registry model: limiterMutex, its writer (0: none) and its readers
    lookups          \* registry model: per goroutine, its position in getOrCreateLimiter

vars == <<now, globalLimiters, conversations, messages, usages, dbFailures,
          wk, ex, bucket, allowLog, requestsPerMinute, expensiveLimiters,
          responses,
          mutex, calls, stream, heap, limiterMutex, lookups>>

dbVars == <<conversations, messages, usages>>
bucketVars == <<bucket, allowLog>>
limitVars == <<requestsPerMinute, expensiveLimiters, responses>>
lockVars == <<mutex, calls>>
registryVars == <<heap, limiterMutex, lookups>>
auxVars == <<bucketVars, limitVars, lockVars, stream, registryVars>>

Min(a, b) == IF a < b THEN a ELSE b

\* ------------------------------------------------------------------------
\* middleware/ratelimit.go
\* ------------------------------------------------------------------------
RateLimiter(tokens, maxTokens, refillRate, lastRefill) ==
    [tokens |-> tokens, maxTokens |-> maxTokens,
     refillRate |-> refillRate, lastRefill |-> lastRefill]

NewRateLimiter(maxTokens, refillRate, t) ==
    RateLimiter(maxTokens, maxTokens, refillRate, t)

\* Allow, a mutant: the refill forgets to move lastRefill
AllowKeepsLastRefill(rl, t) ==
    LET elapsed == t - rl.lastRefill
        tokensToAdd == elapsed \div rl.refillRate
        r == IF tokensToAdd > 0
             THEN [rl EXCEPT !.tokens = Min(rl.maxTokens, rl.tokens + tokensToAdd)]
             ELSE rl
    IN IF r.tokens > 0
       THEN [rl |-> [r EXCEPT !.tokens = @ - 1], ok |-> TRUE]
       ELSE [rl |-> r, ok |-> FALSE]

\* Allow, a mutant: a refill fills the bucket to its capacity
AllowRefillsToCapacity(rl, t) ==
    LET elapsed == t - rl.lastRefill
        tokensToAdd == elapsed \div rl.refillRate
        r == IF tokensToAdd > 0
             THEN [rl EXCEPT !.tokens = rl.maxTokens, !.lastRefill = t]
             ELSE rl
    IN IF r.tokens > 0
       THEN [rl |-> [r EXCEPT !.tokens = @ - 1], ok |-> TRUE]
       ELSE [rl |-> r, ok |-> FALSE]

\* Allow at time t: the RateLimiter afterwards and the value returned
Allow(rl, t) ==
    LET elapsed == t - rl.lastRefill
        tokensToAdd == elapsed \div rl.refillRate
        r == IF tokensToAdd > 0
             THEN [rl EXCEPT !.tokens = Min(rl.maxTokens, rl.tokens + tokensToAdd),
                             !.lastRefill = t]
             ELSE rl
    IN IF r.tokens > 0
       THEN [rl |-> [r EXCEPT !.tokens = @ - 1], ok |-> TRUE]
       ELSE [rl |-> r, ok |-> FALSE]

\* getClientIdentifier: "user:"+id when user_id is set in the context, else "ip:"+address
getClientIdentifier(userID, ip) ==
    IF userID # NoUser THEN <<"user", userID>> ELSE <<"ip", ip>>

\* getOrCreateLimiter: the registry afterwards (the entry is created when absent)
getOrCreateLimiter(limiters, identifier, t) ==
    IF identifier \in DOMAIN limiters
    THEN limiters
    ELSE (identifier :> NewRateLimiter(CfgMaxRequests, CfgWindowDuration \div CfgMaxRequests, t))
         @@ limiters

\* ------------------------------------------------------------------------
\* pkg/database models and the helpers of handlers/chat.go
\* ------------------------------------------------------------------------
\* database.Conversation: the fields the chat handlers read or write
Conversation(userID) ==
    [user_id |-> userID, message_count |-> 0, last_message |-> 0]

\* database.Message. gorm stamps created_at with time.Now() on Create; clock
\* readings are strictly increasing, so created_at is the insertion index.
Message(id, conversationID, userID, type, content) ==
    [conversation_id |-> conversationID, user_id |-> userID, type |-> type,
     content |-> content, status |-> "sent", created_at |-> id]

\* the lookup, a mutant: Where("id = ?") without the owner
ConversationFoundAnyOwner(convs, userID, conversationID) ==
    /\ conversationID # NoConv
    /\ conversationID \in 1..Len(convs)

\* lookup of getOrCreateConversation: Where("id = ? AND user_id = ?").First
ConversationFound(convs, userID, conversationID) ==
    /\ conversationID # NoConv
    /\ conversationID \in 1..Len(convs)
    /\ convs[conversationID].user_id = userID

\* saveUserMessage / saveAIMessage: the table after the Create
saveUserMessage(msgs, conversationID, userID, content) ==
    Append(msgs, Message(Len(msgs) + 1, conversationID, userID, "user", content))

saveAIMessage(msgs, conversationID, userID, content) ==
    Append(msgs, Message(Len(msgs) + 1, conversationID, userID, "ai", content))

\* the content of the message ClearChatContext stores ("context cleared")
ClearedNotice == 0

\* ClearChatContext: the table after the Create of its system message
saveSystemMessage(msgs, conversationID, userID) ==
    Append(msgs, Message(Len(msgs) + 1, conversationID, userID, "system", ClearedNotice))

OpenAIMessage(msg) ==
    [role |-> IF msg.type = "ai" THEN "assistant" ELSE "user", content |-> msg.content]

\* getConversationMessages: Where(conversation_id).Order("created_at ASC").Limit(20),
\* then the user and ai rows as role/content pairs
getConversationMessages(msgs, conversationID) ==
    LET rows == SelectSeq(msgs, LAMBDA m : m.conversation_id = conversationID)
        limited == SubSeq(rows, 1, Min(Len(rows), ContextLimit))
        turns == SelectSeq(limited, LAMBDA m : m.type = "user" \/ m.type = "ai")
    IN [i \in 1..Len(turns) |-> OpenAIMessage(turns[i])]

\* updateConversation: Updates(last_message, message_count) from the handler's
\* copy of the conversation row
updateConversation(convs, conversationID, messageCount, lastMessage) ==
    [convs EXCEPT ![conversationID].last_message = lastMessage,
                  ![conversationID].message_count = messageCount + 2]

\* ------------------------------------------------------------------------
\* State of a goroutine and of an exchange
\* ------------------------------------------------------------------------
IdleWorker ==
    [pc |-> "idle", route |-> "", ip |-> 0,
     charged |-> <<>>,            \* identifier of the limiter RateLimit called Allow on
     authenticated |-> FALSE,     \* AuthRequired has set user_id from the token's claims
     userID |-> NoUser,
     e |-> 0,                     \* the exchange being processed
     last |-> 0]                  \* the exchange of the last frame read on the connection

\* the locals of one handler run (one request, or one frame of a connection)
NewExchange(route, userID, authenticated, conversationID, msgLen, admitted) ==
    [route |-> route, userID |-> userID, reqConv |-> conversationID,
     msgLen |-> msgLen,
     authenticated |-> authenticated,   \* userID was set by AuthRequired
     prev |-> 0,              \* the exchange of the previous frame of the connection
     malformed |-> FALSE,     \* the frame could not be decoded
     admitted |-> admitted,   \* an Allow call was made for this request and returned true
     resolved |-> FALSE,      \* getOrCreateConversation has run
     found |-> FALSE,         \* ... and its lookup found the named conversation
     conv |-> NoConv,         \* conversation.ID
     convCount |-> 0,         \* conversation.MessageCount, as loaded
     userMsg |-> 0,           \* id of the user message saved
     ctxBuilt |-> FALSE,
     ctx |-> <<>>,            \* messages, as passed to callOpenAI
     genCalled |-> FALSE,
     genOK |-> FALSE,
     aiMsg |-> 0,             \* id of the ai message saved
     updated |-> FALSE,       \* updateConversation has run
     usage |-> FALSE,         \* recordChatUsage has run
     events |-> <<>>,         \* SSE events / outbound frames written
     outcome |-> "pending",   \* what the caller was told
     finished |-> FALSE]

\* conversation 1 of user 1 holds PriorExchanges completed exchanges
PriorMessages ==
    [i \in 1..(2 * PriorExchanges) |->
        Message(i, 1, 1, IF i % 2 = 1 THEN "user" ELSE "ai", 0 - i)]

\* a goroutine that has not called Allow (after a call, pc is "idle" again
\* and t and ok are what the call read and returned)
IdleCall == [pc |-> "idle", entry |-> <<>>, t |-> 0, ok |-> FALSE]

\* ExpensiveOperationLimit is installed on no route
NoLimitState ==
    /\ requestsPerMinute = 1
    /\ expensiveLimiters = <<>>
    /\ responses = <<>>

\* no goroutine is inside Allow of the bucket
NoLockState ==
    /\ mutex = 0
    /\ calls = [w \in Workers |-> IdleCall]

\* a goroutine that has not called getOrCreateLimiter (after a call, pc is
\* "idle" again and the other fields are what the call read and returned)
IdleLookup == [pc |-> "idle", identifier |-> <<>>, limiter |-> 0, exists |-> FALSE]

\* no limiter is allocated, limiterMutex is unlocked
NoRegistryState ==
    /\ heap = <<>>
    /\ limiterMutex = [writer |-> 0, readers |-> {}]
    /\ lookups = [w \in Workers |-> IdleLookup]

\* no goroutine is inside callOpenAIStream
NoStream ==
    [pc |-> "none", conv |-> NoConv, userID |-> NoUser, i |-> 0,
     fullResponse |-> <<>>, generated |-> <<>>, connected |-> FALSE, delivered |-> <<>>]

Init ==
    /\ now = 0
    /\ globalLimiters = <<>>
    /\ conversations = << [user_id |-> 1, message_count |-> 2 * PriorExchanges,
                           last_message |-> 0 - (2 * PriorExchanges)] >>
    /\ messages = PriorMessages
    /\ usages = <<>>
    /\ dbFailures = 0
    /\ wk = [w \in Workers |-> IdleWorker]
    /\ ex = <<>>
    /\ allowLog = <<>>
    /\ bucket = NewRateLimiter(1, 1, 0)
    /\ NoLimitState
    /\ NoLockState
    /\ stream = NoStream
    /\ NoRegistryState

\* ------------------------------------------------------------------------
\* Middleware chain (setupMiddleware) and route groups (setupRoutes)
\* ------------------------------------------------------------------------
\* RateLimit(config.RateLimit), installed with router.Use before any route
\* group: user_id is not yet in the context when it runs. The requests of
\* this specification all arrive within one refill interval (now stays 0).
RateLimit(w) ==
    /\ wk[w].pc = "idle"
    /\ \E route \in Routes, ip \in IPs :
         LET identifier == getClientIdentifier(wk[w].userID, ip)
             limiters == getOrCreateLimiter(globalLimiters, identifier, now)
             r == Allow(limiters[identifier], now)
         IN /\ globalLimiters' = [limiters EXCEPT ![identifier] = r.rl]
            /\ wk' = [wk EXCEPT ![w] =
                        IF r.ok
                        THEN [IdleWorker EXCEPT
                                !.pc = IF route = "ws" THEN "ws_upgrade" ELSE "auth",
                                !.route = route, !.ip = ip, !.charged = identifier]
                        ELSE IdleWorker]    \* 429, retry_after
    /\ UNCHANGED <<now, dbVars, dbFailures, ex, auxVars>>

\* AuthRequired(config.JWT) on the group /api/chat: sets user_id from the
\* token's claims, or aborts with 401
AuthRequired(w) ==
    /\ wk[w].pc = "auth"
    /\ \E claimed \in Users \cup {NoUser} :
         wk' = [wk EXCEPT ![w] =
                  IF claimed = NoUser
                  THEN IdleWorker
                  ELSE [@ EXCEPT !.pc = "handler", !.userID = claimed,
                                 !.authenticated = TRUE]]
    /\ UNCHANGED <<now, globalLimiters, dbVars, dbFailures, ex, auxVars>>

\* ------------------------------------------------------------------------
\* How a handler run ends
\* ------------------------------------------------------------------------
\* the goroutine after its handler run ended: a connection reads its next frame
WorkerAfter(w) ==
    IF wk[w].route = "ws"
    THEN [wk[w] EXCEPT !.pc = "ws_read", !.e = 0]
    ELSE IdleWorker

\* the event a failed run writes: an SSE error event, an error frame, or none
\* (the JSON error response is the outcome)
ErrorEvent(route) ==
    IF route = "send" THEN <<>> ELSE <<"error">>

\* the exchange after the handler returned with an error
Failed(x, outcome) ==
    [x EXCEPT !.outcome = IF x.route = "ws" THEN "ws_error" ELSE outcome,
              !.events = @ \o ErrorEvent(x.route),
              !.finished = TRUE]

\* ------------------------------------------------------------------------
\* Handler entry
\* ------------------------------------------------------------------------
\* SendChatMessage, lines 116-147: user_id, ShouldBindJSON, message length
SendChatMessage(w) ==
    /\ wk[w].pc = "handler"
    /\ wk[w].route = "send"
    /\ Len(ex) < MaxExchanges
    /\ \E conversationID \in ReqConvs, msgLen \in MsgLens :
         LET x == NewExchange("send", wk[w].userID, wk[w].authenticated, conversationID, msgLen, TRUE)
             e == Len(ex) + 1
         IN IF msgLen = 0
            THEN /\ ex' = ex                       \* 400, binding:"required"
                 /\ wk' = [wk EXCEPT ![w] = IdleWorker]
            ELSE IF msgLen > MaxMessageLength
            THEN /\ ex' = Append(ex, Failed(x, "validation"))
                 /\ wk' = [wk EXCEPT ![w] = IdleWorker]
            ELSE /\ ex' = Append(ex, x)
                 /\ wk' = [wk EXCEPT ![w].pc = "resolve", ![w].e = e]
    /\ UNCHANGED <<now, globalLimiters, dbVars, dbFailures, auxVars>>

\* StreamChatMessage, lines 264-289: user_id, ShouldBindJSON, SSE headers
StreamChatMessage(w) ==
    /\ wk[w].pc = "handler"
    /\ wk[w].route = "stream"
    /\ Len(ex) < MaxExchanges
    /\ \E conversationID \in ReqConvs, msgLen \in MsgLens :
         LET x == NewExchange("stream", wk[w].userID, wk[w].authenticated, conversationID, msgLen, TRUE)
             e == Len(ex) + 1
         IN IF msgLen = 0
            THEN /\ ex' = ex                       \* 400, binding:"required"
                 /\ wk' = [wk EXCEPT ![w] = IdleWorker]
            ELSE /\ ex' = Append(ex, x)
                 /\ wk' = [wk EXCEPT ![w].pc = "resolve", ![w].e = e]
    /\ UNCHANGED <<now, globalLimiters, dbVars, dbFailures, auxVars>>

\* HandleWebSocket, lines 329-348: Upgrade, user_id from the query string
HandleWebSocket(w) ==
    /\ wk[w].pc = "ws_upgrade"
    /\ \E named \in Users \cup {NoUser} :
         wk' = [wk EXCEPT ![w] =
                  IF named = NoUser
                  THEN IdleWorker       \* error frame, then the deferred Close
                  ELSE [@ EXCEPT !.pc = "ws_read", !.userID = named]]
    /\ UNCHANGED <<now, globalLimiters, dbVars, dbFailures, ex, auxVars>>

\* the for loop, a mutant: the frame is handed to a goroutine of its own and
\* the loop reads on
AwaitsFrameWhileProcessing(w) ==
    wk[w].route = "ws" /\ wk[w].pc \notin {"idle", "ws_upgrade"}

\* HandleWebSocket, the for loop at 350: conn.ReadJSON is called when the
\* connection is established and after each frame's processChatMessage and
\* WriteJSON have returned
AwaitsFrame(w) == wk[w].pc = "ws_read"

\* HandleWebSocket, lines 350-362: ReadJSON returned a frame; no Allow call
\* is made for it
ReadFrame(w) ==
    /\ AwaitsFrame(w)
    /\ Len(ex) < MaxExchanges
    /\ \E conversationID \in ReqConvs, msgLen \in MsgLens :
         /\ ex' = Append(ex, [NewExchange("ws", wk[w].userID, wk[w].authenticated,
                                          conversationID, msgLen, FALSE)
                                 EXCEPT !.prev = wk[w].last])
         /\ wk' = [wk EXCEPT ![w].pc = "resolve", ![w].e = Len(ex) + 1,
                              ![w].last = Len(ex) + 1]
    /\ UNCHANGED <<now, globalLimiters, dbVars, dbFailures, auxVars>>

\* HandleWebSocket, lines 353-359 and 336: ReadJSON returned an error because
\* the frame read is no JSON for a ChatRequest: break, then the deferred Close
ReadMalformedFrame(w) ==
    /\ AwaitsFrame(w)
    /\ Len(ex) < MaxExchanges
    /\ ex' = Append(ex, [NewExchange("ws", wk[w].userID, wk[w].authenticated,
                                     NoConv, 0, FALSE)
                            EXCEPT !.prev = wk[w].last, !.malformed = TRUE,
                                   !.outcome = "closed", !.finished = TRUE])
    /\ wk' = [wk EXCEPT ![w] = IdleWorker]
    /\ UNCHANGED <<now, globalLimiters, dbVars, dbFailures, auxVars>>

\* HandleWebSocket, lines 353-359 and 336: ReadJSON returned an error because
\* the peer closed the connection: break, then the deferred Close
CloseWebSocket(w) ==
    /\ AwaitsFrame(w)
    /\ wk' = [wk EXCEPT ![w] = IdleWorker]
    /\ UNCHANGED <<now, globalLimiters, dbVars, dbFailures, ex, auxVars>>

\* ------------------------------------------------------------------------
\* The steps of an exchange: SendChatMessage 149-252, StreamChatMessage
\* 291-325 with callOpenAIStream, processChatMessage 670-717
\* ------------------------------------------------------------------------
\* a database call may return an error
DbMayFail == dbFailures < MaxDbFailures

\* getOrCreateConversation: the named conversation when the lookup finds it
\* for this user, else a new conversation
GetOrCreateConversation(w) ==
    /\ wk[w].pc = "resolve"
    /\ LET e == wk[w].e
           x == [ex[e] EXCEPT !.resolved = TRUE]
       IN IF ConversationFound(conversations, x.userID, x.reqConv)
          THEN /\ ex' = [ex EXCEPT ![e] =
                           [x EXCEPT !.found = TRUE, !.conv = x.reqConv,
                                     !.convCount = conversations[x.reqConv].message_count]]
               /\ wk' = [wk EXCEPT ![w].pc = "saveUser"]
               /\ UNCHANGED <<conversations, dbFailures>>
          ELSE \/ /\ conversations' = Append(conversations, Conversation(x.userID))
                  /\ ex' = [ex EXCEPT ![e] =
                              [x EXCEPT !.conv = Len(conversations) + 1, !.convCount = 0]]
                  /\ wk' = [wk EXCEPT ![w].pc = "saveUser"]
                  /\ UNCHANGED dbFailures
               \/ /\ DbMayFail
                  /\ dbFailures' = dbFailures + 1
                  /\ ex' = [ex EXCEPT ![e] = Failed(x, "conv_error")]
                  /\ wk' = [wk EXCEPT ![w] = WorkerAfter(w)]
                  /\ UNCHANGED conversations
    /\ UNCHANGED <<now, globalLimiters, messages, usages, auxVars>>

\* saveUserMessage and the caller's error return
SaveUserMessage(w) ==
    /\ wk[w].pc = "saveUser"
    /\ LET e == wk[w].e
           x == ex[e]
       IN \/ /\ messages' = saveUserMessage(messages, x.conv, x.userID, e)
             /\ ex' = [ex EXCEPT ![e].userMsg = Len(messages) + 1]
             /\ wk' = [wk EXCEPT ![w].pc = "getCtx"]
             /\ UNCHANGED dbFailures
          \/ /\ DbMayFail
             /\ dbFailures' = dbFailures + 1
             /\ ex' = [ex EXCEPT ![e] = Failed(x, "save_error")]
             /\ wk' = [wk EXCEPT ![w] = WorkerAfter(w)]
             /\ UNCHANGED messages
    /\ UNCHANGED <<now, globalLimiters, conversations, usages, auxVars>>

\* getConversationMessages and the caller's error return
GetConversationMessages(w) ==
    /\ wk[w].pc = "getCtx"
    /\ LET e == wk[w].e
           x == ex[e]
       IN \/ /\ ex' = [ex EXCEPT ![e].ctxBuilt = TRUE,
                                 ![e].ctx = getConversationMessages(messages, x.conv)]
             /\ wk' = [wk EXCEPT ![w].pc = "gen"]
             /\ UNCHANGED dbFailures
          \/ /\ DbMayFail
             /\ dbFailures' = dbFailures + 1
             /\ ex' = [ex EXCEPT ![e] = Failed(x, "ctx_error")]
             /\ wk' = [wk EXCEPT ![w] = WorkerAfter(w)]
    /\ UNCHANGED <<now, globalLimiters, dbVars, auxVars>>

\* "if err != nil" after the generation call, a mutant: the error is dropped
ErrIgnored(ok) == FALSE

\* "if err != nil" after callOpenAI / callOpenAIStream
ErrNotNil(ok) == ~ok

\* callOpenAI(messages, req), called by SendChatMessage and processChatMessage;
\* the provider answers or fails
CallOpenAI(w) ==
    /\ wk[w].pc = "gen"
    /\ wk[w].route \in {"send", "ws"}
    /\ \E ok \in BOOLEAN :
         LET e == wk[w].e
             x == [ex[e] EXCEPT !.genCalled = TRUE, !.genOK = ok]
         IN IF ErrNotNil(ok)
            THEN /\ ex' = [ex EXCEPT ![e] = Failed(x, "provider_error")]
                 /\ wk' = [wk EXCEPT ![w] = WorkerAfter(w)]
            ELSE /\ ex' = [ex EXCEPT ![e] = x]
                 /\ wk' = [wk EXCEPT ![w].pc = "saveAI"]
    /\ UNCHANGED <<now, globalLimiters, dbVars, dbFailures, auxVars>>

\* callOpenAIStream, lines 632-659: the chunk events, then the done event;
\* StreamChatMessage 321-325 when it returns an error
CallOpenAIStream(w) ==
    /\ wk[w].pc = "gen"
    /\ wk[w].route = "stream"
    /\ \E ok \in BOOLEAN :
         LET e == wk[w].e
             x == [ex[e] EXCEPT !.genCalled = TRUE, !.genOK = ok]
         IN IF ErrNotNil(ok)
            THEN /\ ex' = [ex EXCEPT ![e] = Failed(x, "provider_error")]
                 /\ wk' = [wk EXCEPT ![w] = WorkerAfter(w)]
            ELSE /\ ex' = [ex EXCEPT ![e] =
                             [x EXCEPT !.events = @ \o <<"chunk", "done">>,
                                       !.outcome = "ok"]]
                 /\ wk' = [wk EXCEPT ![w].pc = "saveAI"]
    /\ UNCHANGED <<now, globalLimiters, dbVars, dbFailures, auxVars>>

\* saveAIMessage; its error is logged by SendChatMessage, dropped by
\* callOpenAIStream and returned by processChatMessage
SaveAIMessage(w) ==
    /\ wk[w].pc = "saveAI"
    /\ LET e == wk[w].e
           x == ex[e]
       IN \/ /\ messages' = saveAIMessage(messages, x.conv, x.userID, e)
             /\ ex' = [ex EXCEPT ![e].aiMsg = Len(messages) + 1]
             /\ wk' = [wk EXCEPT ![w].pc = "update"]
             /\ UNCHANGED dbFailures
          \/ /\ DbMayFail
             /\ dbFailures' = dbFailures + 1
             /\ UNCHANGED messages
             /\ IF x.route = "ws"
                THEN /\ ex' = [ex EXCEPT ![e] = Failed(x, "save_error")]
                     /\ wk' = [wk EXCEPT ![w] = WorkerAfter(w)]
                ELSE /\ ex' = ex
                     /\ wk' = [wk EXCEPT ![w].pc = "update"]
    /\ UNCHANGED <<now, globalLimiters, conversations, usages, auxVars>>

\* updateConversation (its error is dropped); then processChatMessage
\* returns the response and callOpenAIStream returns nil
UpdateConversation(w) ==
    /\ wk[w].pc = "update"
    /\ LET e == wk[w].e
           x == [ex[e] EXCEPT !.updated = TRUE]
       IN /\ \/ /\ conversations' = updateConversation(conversations, x.conv, x.convCount, e)
                /\ UNCHANGED dbFailures
             \/ /\ DbMayFail
                /\ dbFailures' = dbFailures + 1
                /\ UNCHANGED conversations
          /\ IF x.route = "send"
             THEN /\ ex' = [ex EXCEPT ![e] = x]
                  /\ wk' = [wk EXCEPT ![w].pc = "usage"]
             ELSE IF x.route = "ws"
             THEN /\ ex' = [ex EXCEPT ![e] =
                              [x EXCEPT !.outcome = "ok", !.finished = TRUE,
                                        !.events = @ \o <<"message">>]]
                  /\ wk' = [wk EXCEPT ![w] = WorkerAfter(w)]
             ELSE /\ ex' = [ex EXCEPT ![e] = [x EXCEPT !.finished = TRUE]]
                  /\ wk' = [wk EXCEPT ![w] = WorkerAfter(w)]
    /\ UNCHANGED <<now, globalLimiters, messages, usages, auxVars>>

\* SendChatMessage, lines 235-252: recordChatUsage, then the 200 response
RecordChatUsage(w) ==
    /\ wk[w].pc = "usage"
    /\ LET e == wk[w].e
           x == ex[e]
       IN /\ \/ /\ usages' = Append(usages, [user_id |-> x.userID, operation |-> "chat"])
                /\ UNCHANGED dbFailures
             \/ /\ DbMayFail
                /\ dbFailures' = dbFailures + 1
                /\ UNCHANGED usages
          /\ ex' = [ex EXCEPT ![e] =
                      [x EXCEPT !.usage = TRUE, !.outcome = "ok", !.finished = TRUE]]
          /\ wk' = [wk EXCEPT ![w] = WorkerAfter(w)]
    /\ UNCHANGED <<now, globalLimiters, conversations, messages, auxVars>>

\* ClearChatContext, DELETE /api/chat/context/:id: 404 unless the conversation
\* is the caller's; else a system message is created (an error of the Create
\* is only logged) and 200 is returned. Conversations are never deleted or
\* given another owner, so the lookup and the Create are one step.
ClearChatContext(w) ==
    /\ wk[w].pc = "handler"
    /\ wk[w].route = "clear"
    /\ \E conversationID \in ReqConvs \ {NoConv} :
         IF ConversationFound(conversations, wk[w].userID, conversationID)
         THEN \/ /\ messages' = saveSystemMessage(messages, conversationID, wk[w].userID)
                 /\ UNCHANGED dbFailures
              \/ /\ DbMayFail
                 /\ dbFailures' = dbFailures + 1
                 /\ UNCHANGED messages
         ELSE UNCHANGED <<messages, dbFailures>>
    /\ wk' = [wk EXCEPT ![w] = IdleWorker]
    /\ UNCHANGED <<now, globalLimiters, conversations, usages, ex, auxVars>>

Next ==
    \E w \in Workers :
         \/ RateLimit(w)
         \/ AuthRequired(w)
         \/ SendChatMessage(w)
         \/ StreamChatMessage(w)
         \/ ClearChatContext(w)
         \/ HandleWebSocket(w)
         \/ ReadFrame(w)
         \/ ReadMalformedFrame(w)
         \/ CloseWebSocket(w)
         \/ GetOrCreateConversation(w)
         \/ SaveUserMessage(w)
         \/ GetConversationMessages(w)
         \/ CallOpenAI(w)
         \/ CallOpenAIStream(w)
         \/ SaveAIMessage(w)
         \/ UpdateConversation(w)
         \/ RecordChatUsage(w)

Spec == Init /\ [][Next]_vars

\* the steps of a handler that depend on nothing but the goroutine being
\* scheduled and the database answering. callOpenAI and callOpenAIStream
\* stand for the call to the generation provider, which the handlers make
\* without a deadline or a context: that the call returns is no property of
\* the program.
HandlerStep(w) ==
    \/ GetOrCreateConversation(w)
    \/ SaveUserMessage(w)
    \/ GetConversationMessages(w)
    \/ SaveAIMessage(w)
    \/ UpdateConversation(w)
    \/ RecordChatUsage(w)

\* every goroutine is scheduled and every database call returns
SpecLive == Init /\ [][Next]_vars /\ \A w \in Workers : WF_vars(HandlerStep(w))

\* ------------------------------------------------------------------------
\* One RateLimiter under Allow calls at arbitrary times
\* ------------------------------------------------------------------------
InitBucket ==
    /\ now = 0
    /\ globalLimiters = <<>>
    /\ conversations = <<>>
    /\ messages = <<>>
    /\ usages = <<>>
    /\ dbFailures = 0
    /\ wk = [w \in Workers |-> IdleWorker]
    /\ ex = <<>>
    /\ allowLog = <<>>
    /\ \E maxTokens \in 1..MaxCap, refillRate \in 1..MaxRefill :
         bucket = NewRateLimiter(maxTokens, refillRate, 0)
    /\ NoLimitState
    /\ NoLockState
    /\ stream = NoStream
    /\ NoRegistryState

\* time passes between two calls
BucketTick ==
    /\ now < BucketMaxTime
    /\ now' = now + 1
    /\ UNCHANGED <<globalLimiters, dbVars, dbFailures, wk, ex, auxVars>>

\* a middleware calls limiter.Allow()
BucketAllow ==
    /\ Len(allowLog) < MaxCalls
    /\ LET r == Allow(bucket, now)
       IN /\ bucket' = r.rl
          /\ allowLog' = Append(allowLog,
                [t |-> now, ok |-> r.ok,
                 \* what the refill of this call added, and rl.tokens at return
                 credited |-> r.rl.tokens + (IF r.ok THEN 1 ELSE 0) - bucket.tokens,
                 tokens |-> r.rl.tokens])
    /\ UNCHANGED <<now, globalLimiters, dbVars, dbFailures, wk, ex, limitVars, lockVars, stream, registryVars>>

NextBucket == BucketTick \/ BucketAllow

SpecBucket == InitBucket /\ [][NextBucket]_vars

\* ------------------------------------------------------------------------
\* ExpensiveOperationLimit(requestsPerMinute) in front of a handler; time in
\* seconds
\* ------------------------------------------------------------------------
InitExpensive ==
    /\ now = 0
    /\ globalLimiters = <<>>
    /\ conversations = <<>>
    /\ messages = <<>>
    /\ usages = <<>>
    /\ dbFailures = 0
    /\ wk = [w \in Workers |-> IdleWorker]
    /\ ex = <<>>
    /\ allowLog = <<>>
    /\ bucket = NewRateLimiter(1, 1, 0)
    /\ requestsPerMinute \in 1..MaxRequestsPerMinute
    /\ expensiveLimiters = <<>>
    /\ responses = <<>>
    /\ NoLockState
    /\ stream = NoStream
    /\ NoRegistryState

\* the handler func of ExpensiveOperationLimit: the limiter of the identifier
\* is created when absent, then Allow; 429 with retry_after 60 when it
\* returns false, c.Next() otherwise
ExpensiveOperationLimit ==
    /\ Len(responses) < MaxCalls
    /\ \E userID \in Users \cup {NoUser}, ip \in IPs :
         LET identifier == getClientIdentifier(userID, ip)
             created == IF identifier \in DOMAIN expensiveLimiters
                        THEN expensiveLimiters
                        ELSE (identifier :> NewRateLimiter(requestsPerMinute,
                                                           Minute \div requestsPerMinute, now))
                             @@ expensiveLimiters
             r == Allow(created[identifier], now)
         IN /\ expensiveLimiters' = [created EXCEPT ![identifier] = r.rl]
            /\ responses' = Append(responses,
                  IF r.ok
                  THEN [identifier |-> identifier, status |-> 200, retry_after |-> 0]
                  ELSE [identifier |-> identifier, status |-> 429, retry_after |-> 60])
    /\ UNCHANGED <<now, globalLimiters, dbVars, dbFailures, wk, ex, bucketVars,
                   requestsPerMinute, lockVars, stream, registryVars>>

NextExpensive == BucketTick \/ ExpensiveOperationLimit

SpecExpensive == InitExpensive /\ [][NextExpensive]_vars

\* C13: a rejection by a per-identity bucket with refill interval R carries a
\* retry-after hint, in seconds, of one refill interval R.
C13_RetryAfterIsOneRefillInterval ==
    \A i \in 1..Len(responses) :
        responses[i].status = 429 =>
            responses[i].retry_after = expensiveLimiters[responses[i].identifier].refillRate

\* ------------------------------------------------------------------------
\* RateLimiter.Allow, statement by statement, called by several goroutines
\* on one RateLimiter
\* ------------------------------------------------------------------------
InitAllow ==
    /\ now = 0
    /\ globalLimiters = <<>>
    /\ conversations = <<>>
    /\ messages = <<>>
    /\ usages = <<>>
    /\ dbFailures = 0
    /\ wk = [w \in Workers |-> IdleWorker]
    /\ ex = <<>>
    /\ allowLog = <<>>
    /\ \E maxTokens \in 1..MaxCap, refillRate \in 1..MaxRefill :
         bucket = NewRateLimiter(maxTokens, refillRate, 0)
    /\ NoLimitState
    /\ NoLockState
    /\ stream = NoStream
    /\ NoRegistryState

\* rl.mutex.Lock(), a mutant: Allow does not take the mutex
MutexIgnored == TRUE

\* rl.mutex.Lock() returns when the mutex is unlocked
MutexUnlocked == mutex = 0

\* line 34: rl.mutex.Lock()
AllowLock(w) ==
    /\ calls[w].pc = "idle"
    /\ MutexUnlocked
    /\ mutex' = w
    /\ calls' = [calls EXCEPT ![w] = [IdleCall EXCEPT !.pc = "locked", !.entry = bucket]]
    /\ UNCHANGED <<now, globalLimiters, dbVars, dbFailures, wk, ex, bucketVars, limitVars, stream, registryVars>>

\* lines 37-45: now := time.Now(); the refill
AllowRefill(w) ==
    /\ calls[w].pc = "locked"
    /\ LET elapsed == now - bucket.lastRefill
           tokensToAdd == elapsed \div bucket.refillRate
       IN bucket' = IF tokensToAdd > 0
                    THEN [bucket EXCEPT
                            !.tokens = Min(bucket.maxTokens, bucket.tokens + tokensToAdd),
                            !.lastRefill = now]
                    ELSE bucket
    /\ calls' = [calls EXCEPT ![w].pc = "check", ![w].t = now]
    /\ UNCHANGED <<now, globalLimiters, dbVars, dbFailures, wk, ex, allowLog, limitVars, mutex, stream, registryVars>>

\* line 48: if rl.tokens > 0; line 53: return false
AllowCheck(w) ==
    /\ calls[w].pc = "check"
    /\ calls' = [calls EXCEPT ![w].pc = IF bucket.tokens > 0 THEN "take" ELSE "return",
                              ![w].ok = FALSE]
    /\ UNCHANGED <<now, globalLimiters, dbVars, dbFailures, wk, ex, bucketVars, limitVars, mutex, stream, registryVars>>

\* lines 49-50: rl.tokens--; return true
AllowTake(w) ==
    /\ calls[w].pc = "take"
    /\ bucket' = [bucket EXCEPT !.tokens = @ - 1]
    /\ calls' = [calls EXCEPT ![w].pc = "return", ![w].ok = TRUE]
    /\ UNCHANGED <<now, globalLimiters, dbVars, dbFailures, wk, ex, allowLog, limitVars, mutex, stream, registryVars>>

\* line 35: the deferred rl.mutex.Unlock(); Allow returns ok to its caller
AllowUnlock(w) ==
    /\ calls[w].pc = "return"
    /\ mutex' = 0
    /\ calls' = [calls EXCEPT ![w].pc = "idle"]
    /\ UNCHANGED <<now, globalLimiters, dbVars, dbFailures, wk, ex, bucketVars, limitVars, stream, registryVars>>

NextAllow ==
    \/ BucketTick
    \/ \E w \in Workers :
         \/ AllowLock(w)
         \/ AllowRefill(w)
         \/ AllowCheck(w)
         \/ AllowTake(w)
         \/ AllowUnlock(w)

SpecAllow == InitAllow /\ [][NextAllow]_vars

\* C20: under any interleaving of Allow calls on one bucket the count stays
\* within 0..maxTokens, and a call that is about to return has changed the
\* bucket exactly as one uninterrupted Allow on the bucket it found: the
\* refill, then one token less when it returns true and none less when it
\* returns false.
C20_AllowIsAtomic ==
    /\ 0 <= bucket.tokens
    /\ bucket.tokens <= bucket.maxTokens
    /\ \A w \in Workers :
         calls[w].pc = "return" =>
            LET r == Allow(calls[w].entry, calls[w].t)
            IN /\ calls[w].ok = r.ok
               /\ bucket = r.rl
               /\ calls[w].ok => bucket.tokens = Min(bucket.maxTokens,
                     calls[w].entry.tokens
                       + ((calls[w].t - calls[w].entry.lastRefill) \div bucket.refillRate)) - 1

\* two goroutines asked for the single remaining token at the same instant:
\* one call returned true, the other false
C20_Witness ==
    \E v, w \in Workers :
        /\ v # w
        /\ calls[v].pc = "idle" /\ calls[v].entry # <<>>
        /\ calls[w].pc = "return"
        /\ calls[v].t = calls[w].t
        /\ calls[v].entry.tokens = 1
        /\ calls[v].ok
        /\ ~calls[w].ok

\* ------------------------------------------------------------------------
\* callOpenAIStream, fragment by fragment, with a client that may go away.
\* A text is the sequence of its characters.
\* ------------------------------------------------------------------------
\* responseChunks, lines 632-634: fragment k is the one-character text <<k>>
responseChunks == [k \in 1..NumChunks |-> <<k>>]

\* StreamChatMessage has run to line 321 for a request of some user: the
\* conversation exists, the user message is saved, the context is loaded
InitStream ==
    /\ now = 0
    /\ globalLimiters = <<>>
    /\ usages = <<>>
    /\ dbFailures = 0
    /\ wk = [w \in Workers |-> IdleWorker]
    /\ ex = <<>>
    /\ allowLog = <<>>
    /\ bucket = NewRateLimiter(1, 1, 0)
    /\ NoLimitState
    /\ NoLockState
    /\ NoRegistryState
    /\ \E userID \in Users :
         /\ conversations = <<Conversation(userID)>>
         /\ messages = saveUserMessage(<<>>, 1, userID, <<0>>)
         /\ stream = [NoStream EXCEPT !.pc = "chunks", !.conv = 1, !.userID = userID,
                                      !.connected = TRUE]

\* what the client receives of an event written to c.Writer: nothing once it
\* has gone away (the error of Fprintf is dropped)
Deliver(event) ==
    IF stream.connected THEN Append(stream.delivered, event) ELSE stream.delivered

\* the client closes the connection; callOpenAIStream does not look at it
ClientDisconnects ==
    /\ stream.pc \in {"chunks", "save", "update"}
    /\ stream.connected
    /\ stream' = [stream EXCEPT !.connected = FALSE]
    /\ UNCHANGED <<now, globalLimiters, dbVars, dbFailures, wk, ex, bucketVars,
                   limitVars, lockVars, registryVars>>

\* lines 638-653: one turn of the loop over responseChunks
StreamChunk ==
    /\ stream.pc = "chunks"
    /\ stream.i < Len(responseChunks)
    /\ LET chunk == responseChunks[stream.i + 1]
           event == [type |-> "chunk", content |-> chunk, index |-> stream.i]
       IN stream' = [stream EXCEPT !.delivered = Deliver(event),
                                   !.generated = Append(@, event),
                                   !.fullResponse = @ \o chunk,
                                   !.i = @ + 1]
    /\ UNCHANGED <<now, globalLimiters, dbVars, dbFailures, wk, ex, bucketVars,
                   limitVars, lockVars, registryVars>>

\* lines 655-659: the done event, after the last fragment
StreamDone ==
    /\ stream.pc = "chunks"
    /\ stream.i = Len(responseChunks)
    /\ stream' = [stream EXCEPT !.delivered = Deliver([type |-> "done"]), !.pc = "save"]
    /\ UNCHANGED <<now, globalLimiters, dbVars, dbFailures, wk, ex, bucketVars,
                   limitVars, lockVars, registryVars>>

\* line 662: saveAIMessage(conversation.ID, userID, fullResponse.String(), ...);
\* what it returns is dropped
StreamSave ==
    /\ stream.pc = "save"
    /\ \/ /\ messages' = saveAIMessage(messages, stream.conv, stream.userID,
                                       stream.fullResponse)
          /\ UNCHANGED dbFailures
       \/ /\ DbMayFail
          /\ dbFailures' = dbFailures + 1
          /\ UNCHANGED messages
    /\ stream' = [stream EXCEPT !.pc = "update"]
    /\ UNCHANGED <<now, globalLimiters, conversations, usages, wk, ex, bucketVars,
                   limitVars, lockVars, registryVars>>

\* lines 665-667: updateConversation(conversation, fullResponse.String()); return nil
StreamUpdate ==
    /\ stream.pc = "update"
    /\ \/ /\ conversations' = updateConversation(conversations, stream.conv, 0,
                                                 stream.fullResponse)
          /\ UNCHANGED dbFailures
       \/ /\ DbMayFail
          /\ dbFailures' = dbFailures + 1
          /\ UNCHANGED conversations
    /\ stream' = [stream EXCEPT !.pc = "returned"]
    /\ UNCHANGED <<now, globalLimiters, messages, usages, wk, ex, bucketVars,
                   limitVars, lockVars, registryVars>>

NextStream ==
    \/ ClientDisconnects
    \/ StreamChunk
    \/ StreamDone
    \/ StreamSave
    \/ StreamUpdate

SpecStream == InitStream /\ [][NextStream]_vars

\* the texts of a sequence of fragment events, joined in index order
RECURSIVE Concatenation(_)
Concatenation(events) ==
    IF events = <<>> THEN <<>>
    ELSE Concatenation(SubSeq(events, 1, Len(events) - 1)) \o events[Len(events)].content

\* the assistant messages stored for the conversation of the stream
StreamAssistantMessages ==
    {i \in 1..Len(messages) :
        messages[i].conversation_id = stream.conv /\ messages[i].type = "ai"}

\* C15: when a push-stream exchange has ended, whether or not the client went
\* away before the done event, exactly one assistant message is stored for
\* it, and its content is the concatenation in index order of all the
\* fragments generated.
C15_StreamPersistsAllFragments ==
    stream.pc = "returned" =>
        /\ Cardinality(StreamAssistantMessages) = 1
        /\ \A i \in StreamAssistantMessages :
             messages[i].content = Concatenation(stream.generated)
        /\ \A k \in 1..Len(stream.generated) : stream.generated[k].index = k - 1

\* callOpenAIStream has written the done event to the response
DoneEmitted == stream.pc \in {"save", "update", "returned"}

\* C26: in a push-stream exchange the done event is emitted only after the
\* assistant turn has been stored and the summary of the conversation
\* updated: once done is emitted, the assistant message is in the table and
\* the conversation's last_message is the full response.
C26_DoneAfterPersistence ==
    DoneEmitted =>
        /\ StreamAssistantMessages # {}
        /\ conversations[stream.conv].last_message = stream.fullResponse

\* ------------------------------------------------------------------------
\* middleware/ratelimit.go, getOrCreateLimiter statement by statement: the
\* goroutines of concurrent requests under limiterMutex (a sync.RWMutex).
\* Here globalLimiters maps an identifier to the address of its RateLimiter
\* and heap holds the objects, so that two objects with equal fields differ.
\* CleanupOldLimiters is started nowhere in the program (cmd/server/main.go,
\* api.NewServer, Server.Start), so no step deletes an entry.
\* ------------------------------------------------------------------------
ClientIPs == 1..NumClients

InitRegistry ==
    /\ now = 0
    /\ globalLimiters = <<>>
    /\ conversations = <<>>
    /\ messages = <<>>
    /\ usages = <<>>
    /\ dbFailures = 0
    /\ wk = [w \in Workers |-> IdleWorker]
    /\ ex = <<>>
    /\ bucket = NewRateLimiter(CfgMaxRequests, CfgWindowDuration \div CfgMaxRequests, 0)
    /\ allowLog = <<>>
    /\ NoLimitState
    /\ NoLockState
    /\ stream = NoStream
    /\ NoRegistryState

\* RateLimit, the identifier, and getOrCreateLimiter up to limiterMutex.RLock():
\* a read lock is granted while no goroutine holds the write lock
RegistryRLock(w) ==
    /\ lookups[w].pc = "idle"
    /\ limiterMutex.writer = 0
    /\ \E ip \in ClientIPs :
         lookups' = [lookups EXCEPT ![w] =
             [pc |-> "rlocked", identifier |-> getClientIdentifier(NoUser, ip),
              limiter |-> 0, exists |-> FALSE]]
    /\ limiterMutex' = [limiterMutex EXCEPT !.readers = @ \cup {w}]
    /\ UNCHANGED <<now, globalLimiters, dbVars, dbFailures, wk, ex, bucketVars,
                   limitVars, lockVars, stream, heap>>

\* limiter, exists := globalLimiters[identifier]; limiterMutex.RUnlock()
RegistryLookup(w) ==
    /\ lookups[w].pc = "rlocked"
    /\ LET identifier == lookups[w].identifier
           exists == identifier \in DOMAIN globalLimiters
       IN  lookups' = [lookups EXCEPT ![w] =
               [pc |-> IF exists THEN "allow" ELSE "lock",
                identifier |-> identifier,
                limiter |-> IF exists THEN globalLimiters[identifier] ELSE 0,
                exists |-> exists]]
    /\ limiterMutex' = [limiterMutex EXCEPT !.readers = @ \ {w}]
    /\ UNCHANGED <<now, globalLimiters, dbVars, dbFailures, wk, ex, bucketVars,
                   limitVars, lockVars, stream, heap>>

\* if !exists { limiterMutex.Lock(): granted while nobody holds the mutex
RegistryLock(w) ==
    /\ lookups[w].pc = "lock"
    /\ limiterMutex.writer = 0
    /\ limiterMutex.readers = {}
    /\ limiterMutex' = [limiterMutex EXCEPT !.writer = w]
    /\ lookups' = [lookups EXCEPT ![w].pc = "locked"]
    /\ UNCHANGED <<now, globalLimiters, dbVars, dbFailures, wk, ex, bucketVars,
                   limitVars, lockVars, stream, heap>>

\* the double-check with the second lookup left out: the entry is taken as absent
EntryAssumedAbsent(identifier) == FALSE

\* the double-check after acquiring the write lock: the second lookup's exists
EntryExists(identifier) == identifier \in DOMAIN globalLimiters

\* the body under the write lock: the entry another goroutine stored is taken,
\* otherwise a RateLimiter is allocated and stored; limiterMutex.Unlock()
RegistryCreate(w) ==
    /\ lookups[w].pc = "locked"
    /\ limiterMutex.writer = w
    /\ LET identifier == lookups[w].identifier
       IN  IF EntryExists(identifier)
           THEN /\ lookups' = [lookups EXCEPT ![w].pc = "allow",
                                             ![w].limiter = globalLimiters[identifier]]
                /\ UNCHANGED <<heap, globalLimiters>>
           ELSE /\ heap' = Append(heap,
                        NewRateLimiter(CfgMaxRequests,
                                       CfgWindowDuration \div CfgMaxRequests, now))
                /\ globalLimiters' =
                        [i \in DOMAIN globalLimiters \cup {identifier} |->
                            IF i = identifier THEN Len(heap) + 1 ELSE globalLimiters[i]]
                /\ lookups' = [lookups EXCEPT ![w].pc = "allow",
                                             ![w].limiter = Len(heap) + 1]
    /\ limiterMutex' = [limiterMutex EXCEPT !.writer = 0]
    /\ UNCHANGED <<now, dbVars, dbFailures, wk, ex, bucketVars, limitVars,
                   lockVars, stream>>

\* return limiter; RateLimit: limiter.Allow() on the object returned
RegistryAllow(w) ==
    /\ lookups[w].pc = "allow"
    /\ heap' = [heap EXCEPT ![lookups[w].limiter] = Allow(@, now).rl]
    /\ lookups' = [lookups EXCEPT ![w].pc = "idle"]
    /\ UNCHANGED <<now, globalLimiters, dbVars, dbFailures, wk, ex, bucketVars,
                   limitVars, lockVars, stream, limiterMutex>>

NextRegistry ==
    \E w \in Workers :
        \/ RegistryRLock(w)
        \/ RegistryLookup(w)
        \/ RegistryLock(w)
        \/ RegistryCreate(w)
        \/ RegistryAllow(w)

SpecRegistry == InitRegistry /\ [][NextRegistry]_vars

\* a goroutine that has obtained a limiter from getOrCreateLimiter
HoldsLimiter(w) == lookups[w].limiter # 0

\* C21: racing first-time requests of one identity create exactly one bucket:
\* every bucket allocated is the registry's entry of exactly one identity
\* (none is allocated and then dropped or replaced), and the bucket a request
\* holds for its Allow is the registry's entry for its identity.
C21_OneBucketPerIdentity ==
    /\ Len(heap) = Cardinality(DOMAIN globalLimiters)
    /\ \A i, j \in DOMAIN globalLimiters :
         globalLimiters[i] = globalLimiters[j] => i = j
    /\ \A w \in Workers :
         HoldsLimiter(w) =>
            /\ lookups[w].identifier \in DOMAIN globalLimiters
            /\ globalLimiters[lookups[w].identifier] = lookups[w].limiter

\* two first-time requests of one identity raced (both found no entry in the
\* first lookup) and both have made their Allow, on the same bucket
C21_Witness ==
    \E v, w \in Workers :
        /\ v # w
        /\ lookups[v].identifier = lookups[w].identifier
        /\ ~lookups[v].exists /\ ~lookups[w].exists
        /\ lookups[v].pc = "idle" /\ lookups[w].pc = "idle"
        /\ HoldsLimiter(v) /\ lookups[v].limiter = lookups[w].limiter
        /\ heap[lookups[v].limiter].tokens = CfgMaxRequests - 2

\* ------------------------------------------------------------------------
\* The registry of RateLimit over the lifetime of the server. A tick is a
\* quarter of an hour and RATE_LIMIT_WINDOW is 30m (CfgWindowDuration ticks).
\* The server starts no goroutine that removes entries: CleanupOldLimiters
\* is called nowhere (cmd/server/main.go, api.NewServer, Server.Start), and
\* RateLimit is the only limiter setupMiddleware installs.
\* ------------------------------------------------------------------------
InitLimiters ==
    /\ now = 0
    /\ globalLimiters = <<>>
    /\ conversations = <<>>
    /\ messages = <<>>
    /\ usages = <<>>
    /\ dbFailures = 0
    /\ wk = [w \in Workers |-> IdleWorker]
    /\ ex = <<>>
    /\ bucket = NewRateLimiter(CfgMaxRequests, CfgWindowDuration \div CfgMaxRequests, 0)
    /\ allowLog = <<>>
    /\ NoLimitState
    /\ NoLockState
    /\ stream = NoStream
    /\ NoRegistryState

\* time passes
ClockTick ==
    /\ now < MaxClock
    /\ now' = now + 1
    /\ UNCHANGED <<globalLimiters, dbVars, dbFailures, wk, ex, auxVars>>

\* RateLimit for a request of some client address: getOrCreateLimiter, Allow
\* (then the handler or the 429 response, which leave the registry alone)
RateLimitRequest ==
    /\ \E ip \in ClientIPs :
         LET identifier == getClientIdentifier(NoUser, ip)
             limiters == getOrCreateLimiter(globalLimiters, identifier, now)
         IN globalLimiters' =
                [limiters EXCEPT ![identifier] = Allow(limiters[identifier], now).rl]
    /\ UNCHANGED <<now, dbVars, dbFailures, wk, ex, auxVars>>

NextLimiters == ClockTick \/ RateLimitRequest

SpecLimiters == InitLimiters /\ [][NextLimiters]_vars

\* C28: a sweep runs every hour over the registry and removes the buckets
\* whose last refill is older than twice the policy's window, so at no time
\* does the registry hold a bucket whose last refill is older than two
\* windows plus one sweep period.
C28_SweepBoundsRegistry ==
    \A identifier \in DOMAIN globalLimiters :
        now - globalLimiters[identifier].lastRefill
            <= 2 * CfgWindowDuration + SweepPeriod

\* ------------------------------------------------------------------------
\* Vocabulary of the claims about exchanges
\* ------------------------------------------------------------------------
Exchanges == 1..Len(ex)

SameConversation(e1, e2) ==
    /\ ex[e1].conv # NoConv
    /\ ex[e1].conv = ex[e2].conv

\* the rows of a conversation that are turns, in creation order
Turns(conversationID) ==
    SelectSeq(messages, LAMBDA m : m.conversation_id = conversationID /\ m.type # "system")

\* the content of the last user turn of a context, 0 when it has none
RECURSIVE LastUserTurn(_)
LastUserTurn(ctx) ==
    IF ctx = <<>> THEN 0
    ELSE IF ctx[Len(ctx)].role = "user" THEN ctx[Len(ctx)].content
    ELSE LastUserTurn(SubSeq(ctx, 1, Len(ctx) - 1))

\* the messages an exchange appended: it tags their content with its number
Appended(e, type) ==
    {i \in 1..Len(messages) : messages[i].content = e /\ messages[i].type = type}

NoExchangeInFlight == \A w \in Workers : wk[w].e = 0

\* C1: exchanges on one conversation are serialized: the user-turn write of
\* one never falls between the user-turn write and the assistant-turn write
\* of another.
C1_Serialized ==
    \A e1, e2 \in Exchanges :
        (e1 # e2 /\ SameConversation(e1, e2) /\ ex[e1].aiMsg # 0 /\ ex[e2].userMsg # 0)
        => ~(ex[e1].userMsg < ex[e2].userMsg /\ ex[e2].userMsg < ex[e1].aiMsg)

\* the persisted spans of two exchanges interleave
Overlap(e1, e2) ==
    /\ ex[e1].userMsg < ex[e2].aiMsg
    /\ ex[e2].userMsg < ex[e1].aiMsg

\* C2: for two concurrent exchanges on one conversation (a) no assistant
\* reply is appended before the user turn of its own exchange and (b) the two
\* assistant turns were generated from contexts whose last user turns differ.
C2_ReplyAfterOwnTurnAndDistinctTurns ==
    /\ \A e \in Exchanges :
         ex[e].aiMsg # 0 => (ex[e].userMsg # 0 /\ ex[e].userMsg < ex[e].aiMsg)
    /\ \A e1, e2 \in Exchanges :
         (e1 # e2 /\ SameConversation(e1, e2) /\ ex[e1].aiMsg # 0 /\ ex[e2].aiMsg # 0
             /\ Overlap(e1, e2))
         => LastUserTurn(ex[e1].ctx) # LastUserTurn(ex[e2].ctx)

\* C4: an exchange reported successful has appended exactly one user message
\* and exactly one assistant message, the user message first and with the
\* smaller creation timestamp, also when a database write fails.
C4_SuccessAppendsBothTurns ==
    \A e \in Exchanges :
        (ex[e].finished /\ ex[e].outcome = "ok") =>
            /\ Appended(e, "user") = {ex[e].userMsg}
            /\ Appended(e, "ai") = {ex[e].aiMsg}
            /\ ex[e].userMsg < ex[e].aiMsg
            /\ messages[ex[e].userMsg].created_at < messages[ex[e].aiMsg].created_at

\* C5: the list of turns built for an exchange never ends with an assistant turn.
C5_ContextNeverEndsWithAssistant ==
    \A e \in Exchanges :
        (ex[e].ctxBuilt /\ ex[e].ctx # <<>>) => ex[e].ctx[Len(ex[e].ctx)].role # "assistant"

GenerationFailed(e) == ex[e].genCalled /\ ~ex[e].genOK

\* C6: when the generation call of an exchange fails, its user turn is
\* persisted with status sent, it has no assistant turn, it has updated
\* neither the conversation summary nor the usage records and does nothing
\* more, and the caller was told of a failure.
C6_ProviderFailureKeepsUserTurnOnly ==
    \A e \in Exchanges :
        GenerationFailed(e) =>
            /\ Appended(e, "user") = {ex[e].userMsg}
            /\ ex[e].userMsg # 0
            /\ messages[ex[e].userMsg].status = "sent"
            /\ messages[ex[e].userMsg].conversation_id = ex[e].conv
            /\ Appended(e, "ai") = {}
            /\ ex[e].aiMsg = 0
            /\ ~ex[e].updated
            /\ ~ex[e].usage
            /\ ex[e].finished
            /\ ex[e].outcome \in {"provider_error", "ws_error"}
            /\ \A w \in Workers : wk[w].e # e

\* a failed generation on a conversation on which another exchange completed
C6_Witness ==
    \E e1, e2 \in Exchanges :
        /\ e1 # e2
        /\ SameConversation(e1, e2)
        /\ GenerationFailed(e1)
        /\ ex[e2].aiMsg # 0
        /\ ex[e2].updated

\* the exchange named a conversation and the lookup did not find it for the caller
NamedConversationNotFound(e) ==
    ex[e].resolved /\ ex[e].reqConv # NoConv /\ ~ex[e].found

\* C7: an exchange naming a conversation that is absent or owned by another
\* identity fails with NotFound, creates no conversation and appends no message.
C7_UnknownConversationRejected ==
    \A e \in Exchanges :
        NamedConversationNotFound(e) =>
            /\ ex[e].conv = NoConv
            /\ ex[e].userMsg = 0
            /\ ex[e].finished => ex[e].outcome = "not_found"

\* C8: on every transport a message longer than the maximum is rejected with a
\* validation error: no conversation is created, no message is appended, the
\* provider is not called.
C8_LongMessageRejected ==
    \A e \in Exchanges :
        ex[e].msgLen > MaxMessageLength =>
            /\ ~(ex[e].conv # NoConv /\ ~ex[e].found)
            /\ ex[e].userMsg = 0
            /\ ~ex[e].genCalled
            /\ ex[e].finished => ex[e].outcome = "validation"

\* C9: the provider is called for a request (or frame) only when an Allow
\* call made for that request returned true.
C9_GenerationOnlyWhenAdmitted ==
    \A e \in Exchanges : ex[e].genCalled => ex[e].admitted

\* user, ai, user, ai, ...
Alternates(turns) ==
    \A i \in 1..Len(turns) : turns[i].type = (IF i % 2 = 1 THEN "user" ELSE "ai")

\* C10: with no exchange in flight, the turns of every conversation in
\* creation order alternate user, assistant, user, assistant, ...
C10_TurnsAlternate ==
    NoExchangeInFlight =>
        \A c \in 1..Len(conversations) : Alternates(Turns(c))

\* ------------------------------------------------------------------------
\* C3: burst of C+1 calls on a full bucket, then one refill
\* ------------------------------------------------------------------------
\* the bucket was created full at time 0 and C+1 calls were made before R elapsed
BurstInFirstWindow ==
    /\ Len(allowLog) >= bucket.maxTokens + 1
    /\ allowLog[bucket.maxTokens + 1].t < bucket.refillRate

\* of those C+1 calls the first C returned true and the last returned false
BurstAdmitsExactlyCapacity ==
    BurstInFirstWindow =>
        /\ \A i \in 1..bucket.maxTokens : allowLog[i].ok
        /\ ~allowLog[bucket.maxTokens + 1].ok

\* the next two calls are made at the same instant, `wait` after `since`
TwoCallsAfter(since, wait) ==
    /\ BurstInFirstWindow
    /\ Len(allowLog) >= bucket.maxTokens + 3
    /\ allowLog[bucket.maxTokens + 2].t = allowLog[bucket.maxTokens + 3].t
    /\ allowLog[bucket.maxTokens + 2].t - since = wait

ExactlyFirstOfTwo ==
    /\ allowLog[bucket.maxTokens + 2].ok
    /\ ~allowLog[bucket.maxTokens + 3].ok

WaitsOneWindow == bucket.refillRate .. (2 * bucket.refillRate - 1)

\* C3 as stated: on a full bucket the first C of C+1 calls made before R has
\* elapsed return true and the (C+1)-th false; when the identity then waits
\* at least R and less than 2R after the rejected call and calls Allow twice
\* in immediate succession, exactly the first of the two returns true.
C3_Original ==
    /\ BurstAdmitsExactlyCapacity
    /\ \A wait \in WaitsOneWindow :
         TwoCallsAfter(allowLog[bucket.maxTokens + 1].t, wait) => ExactlyFirstOfTwo

\* C3 amended: the same, with the wait of at least R and less than 2R
\* measured from the bucket's last refill (its creation, time 0) instead of
\* from the rejected call.
C3_BurstThenOneRefill ==
    /\ BurstAdmitsExactlyCapacity
    /\ \A wait \in WaitsOneWindow :
         TwoCallsAfter(0, wait) => ExactlyFirstOfTwo

\* a burst on a bucket of capacity 2 or more, the rejected call made after
\* the creation instant, and the two later calls one window after creation
C3_Witness ==
    /\ bucket.maxTokens >= 2
    /\ BurstInFirstWindow
    /\ allowLog[bucket.maxTokens + 1].t > 0
    /\ \E wait \in WaitsOneWindow : TwoCallsAfter(0, wait)

\* ------------------------------------------------------------------------
\* C22, C23: the refill arithmetic over a history of calls
\* ------------------------------------------------------------------------
\* the calls recorded that returned true
Admitted == {i \in 1..Len(allowLog) : allowLog[i].ok}

\* C22: for a bucket of capacity C and refill interval R created full at
\* time 0, after any calls of Allow made up to time T the number of calls
\* that returned true is at most C + floor(T / R).
C22_AdmittedAtMostCapacityPlusRefills ==
    Cardinality(Admitted) <= bucket.maxTokens + (now \div bucket.refillRate)

\* the bound is met with equality after at least one refill interval, with
\* a call that was rejected in between
C22_Witness ==
    /\ now >= bucket.refillRate
    /\ Cardinality(Admitted) = bucket.maxTokens + (now \div bucket.refillRate)
    /\ \E i \in 1..Len(allowLog) : ~allowLog[i].ok

RECURSIVE CreditedBetween(_, _)
\* the tokens credited by the calls after call i up to call j
CreditedBetween(i, j) ==
    IF j <= i THEN 0 ELSE allowLog[j].credited + CreditedBetween(i, j - 1)

\* call i left the bucket empty, and no later call up to call j found the
\* bucket at its capacity after its refill
EmptiedThenBelowCapacity(i, j) ==
    /\ allowLog[i].tokens = 0
    /\ \A k \in (i + 1)..j :
         allowLog[k].tokens + (IF allowLog[k].ok THEN 1 ELSE 0) < bucket.maxTokens

\* C23: the bucket refills one token per R whenever Allow is called: when a
\* call at time t0 leaves the bucket empty and the bucket stays below its
\* capacity, the tokens credited by the calls up to one made at t0 + d
\* total at least floor(d / R); the remainder of an interval is carried over.
C23_RefillCarriesRemainder ==
    \A i, j \in 1..Len(allowLog) :
        (i < j /\ EmptiedThenBelowCapacity(i, j)) =>
            CreditedBetween(i, j) >= (allowLog[j].t - allowLog[i].t) \div bucket.refillRate

\* ------------------------------------------------------------------------
\* C11: the window is the most recent N messages
\* ------------------------------------------------------------------------
\* the rows of a conversation among the first k rows of the table, in append order
RowsUpTo(conversationID, k) ==
    SelectSeq(SubSeq(messages, 1, k), LAMBDA m : m.conversation_id = conversationID)

\* the last min(n, limit) elements of a sequence of n elements
MostRecent(rows, limit) ==
    SubSeq(rows, Len(rows) - Min(Len(rows), limit) + 1, Len(rows))

\* C11: the context built for an exchange is the last min(n, N) messages of
\* its conversation, as stored when it was built (after the exchange's own
\* user message was appended), oldest first in append order.
C11_ContextIsMostRecentWindow ==
    \A e \in Exchanges :
        ex[e].ctxBuilt =>
            \E k \in ex[e].userMsg .. Len(messages) :
                LET window == MostRecent(RowsUpTo(ex[e].conv, k), ContextLimit)
                IN ex[e].ctx = [i \in 1..Len(window) |-> OpenAIMessage(window[i])]

\* ------------------------------------------------------------------------
\* C24, C29: what the context handed to the provider holds
\* ------------------------------------------------------------------------
\* the positions of a context that hold the user turn of exchange e
OwnTurnIn(ctx, e) ==
    {i \in 1..Len(ctx) : ctx[i].role = "user" /\ ctx[i].content = e}

\* C24: the turn list handed to the provider ends with the exchange's own
\* new user turn and contains that turn exactly once, whatever the length
\* of the conversation and whatever other exchanges run at the same time.
C24_ContextEndsWithOwnUserTurn ==
    \A e \in Exchanges :
        ex[e].ctxBuilt =>
            /\ Cardinality(OwnTurnIn(ex[e].ctx, e)) = 1
            /\ Len(ex[e].ctx) \in OwnTurnIn(ex[e].ctx, e)

\* the most recent `limit` rows, and one more row in front of them when the
\* first of them is an assistant turn that follows its user turn
WholePairs(rows, limit) ==
    LET first == Len(rows) - Min(Len(rows), limit) + 1
        midPair == /\ first > 1
                   /\ rows[first].type = "ai"
                   /\ rows[first - 1].type = "user"
    IN SubSeq(rows, IF midPair THEN first - 1 ELSE first, Len(rows))

ClearedAt(conversationID) ==
    {i \in 1..Len(messages) :
        messages[i].conversation_id = conversationID /\ messages[i].type = "system"}

\* the contents of the user and assistant messages of a conversation stored
\* before row i
StoredBefore(conversationID, i) ==
    {messages[j].content : j \in {k \in 1..(i - 1) :
        messages[k].conversation_id = conversationID /\ messages[k].type # "system"}}

\* C30: after ClearChatContext has succeeded on a conversation, the context
\* built for a later exchange on it (one whose user message was stored after
\* the clear) contains no message stored before the clear, and the notice
\* of the clear itself is never part of a context.
C30_ClearedContextStartsAfresh ==
    \A e \in Exchanges :
        ex[e].ctxBuilt =>
            /\ \A s \in ClearedAt(ex[e].conv) :
                 s < ex[e].userMsg =>
                    \A i \in 1..Len(ex[e].ctx) :
                        ex[e].ctx[i].content \notin StoredBefore(ex[e].conv, s)
            /\ \A i \in 1..Len(ex[e].ctx) : ex[e].ctx[i].content # ClearedNotice

\* ------------------------------------------------------------------------
\* C25: the summary of a conversation
\* ------------------------------------------------------------------------
\* the assistant messages stored for a conversation, in append order
AssistantTurns(conversationID) ==
    SelectSeq(messages, LAMBDA m : m.conversation_id = conversationID /\ m.type = "ai")

\* C25: whenever no exchange is in flight, the message_count of every
\* conversation is the number of user and assistant messages stored for it
\* and its last_message is the content of the assistant message stored last.
C25_SummaryMatchesMessages ==
    NoExchangeInFlight =>
        \A c \in 1..Len(conversations) :
            /\ conversations[c].message_count = Len(Turns(c))
            /\ AssistantTurns(c) # <<>> =>
                  conversations[c].last_message =
                      AssistantTurns(c)[Len(AssistantTurns(c))].content

\* ------------------------------------------------------------------------
\* C27: messages and their conversation's owner
\* ------------------------------------------------------------------------
\* C27: every stored message carries the user id of the owner of its
\* conversation, and the conversation an exchange writes to and updates is
\* owned by the user id the exchange runs under.
C27_MessagesBelongToOwner ==
    /\ \A i \in 1..Len(messages) :
         messages[i].user_id = conversations[messages[i].conversation_id].user_id
    /\ \A e \in Exchanges :
         ex[e].conv # NoConv => conversations[ex[e].conv].user_id = ex[e].userID

\* an exchange that named the conversation of another user has stored its
\* user message, in a conversation of its own
C27_Witness ==
    \E e \in Exchanges :
        /\ ex[e].reqConv # NoConv
        /\ ex[e].reqConv \in 1..Len(conversations)
        /\ conversations[ex[e].reqConv].user_id # ex[e].userID
        /\ ex[e].userMsg # 0
        /\ ex[e].conv # ex[e].reqConv
        /\ messages[ex[e].userMsg].conversation_id = ex[e].conv

\* ------------------------------------------------------------------------
\* C12, C19: identities
\* ------------------------------------------------------------------------
\* C12: a request of an authenticated caller was charged to the bucket keyed
\* by the caller's user id, every other request to the bucket keyed by its
\* client address.
C12_ChargedToCallerIdentity ==
    \A w \in Workers :
        wk[w].charged # <<>> =>
            wk[w].charged = (IF wk[w].authenticated
                             THEN <<"user", wk[w].userID>>
                             ELSE <<"ip", wk[w].ip>>)

\* the exchange has written a conversation or a message
HasWritten(e) ==
    \/ ex[e].userMsg # 0
    \/ ex[e].aiMsg # 0
    \/ (ex[e].conv # NoConv /\ ~ex[e].found)

\* C19: an exchange writes conversations and messages only under a user id
\* that the authentication layer resolved for its request or connection.
C19_WritesOnlyUnderAuthenticatedOwner ==
    \A e \in Exchanges : HasWritten(e) => ex[e].authenticated

\* ------------------------------------------------------------------------
\* C14: usage records
\* ------------------------------------------------------------------------
ChatUsages(userID) ==
    {i \in 1..Len(usages) : usages[i].user_id = userID /\ usages[i].operation = "chat"}

SuccessfulGenerations(userID) ==
    {e \in Exchanges : ex[e].userID = userID /\ ex[e].genCalled /\ ex[e].genOK}

\* C14: with no exchange in flight, the number of chat usage records of a
\* user equals the number of that user's exchanges whose generation call
\* succeeded, on whatever transport.
C14_OneUsagePerSuccessfulGeneration ==
    NoExchangeInFlight =>
        \A u \in Users : Cardinality(ChatUsages(u)) = Cardinality(SuccessfulGenerations(u))

\* ------------------------------------------------------------------------
\* C16, C17: the streaming transports
\* ------------------------------------------------------------------------
\* the terminal events of a push-stream response
TerminalEvents(e) ==
    {i \in 1..Len(ex[e].events) : ex[e].events[i] \in {"done", "error"}}

\* C16: a finished push-stream exchange carries exactly one terminal event
\* (done or error), and an exchange on a duplex connection that ended
\* otherwise than with its message frame was answered with an error frame
\* before the connection went on or was closed.
C16_ExplicitTerminalEvent ==
    \A e \in Exchanges :
        /\ ex[e].route = "stream" => Cardinality(TerminalEvents(e)) <= 1
        /\ (ex[e].route = "stream" /\ ex[e].finished) => Cardinality(TerminalEvents(e)) = 1
        /\ (ex[e].route = "ws" /\ ex[e].finished /\ ex[e].outcome # "ok")
              => ex[e].events = <<"error">>

\* C17: when a frame is read on a duplex connection, the exchange of the
\* previous frame of that connection has ended, having written exactly one
\* outbound frame; so frames are answered one at a time in arrival order.
C17_FramesInArrivalOrder ==
    /\ \A e \in Exchanges :
         ex[e].prev # 0 =>
            /\ ex[e].prev < e
            /\ ex[ex[e].prev].finished
            /\ Len(ex[ex[e].prev].events) = 1
    /\ \A w \in Workers :
         (wk[w].route = "ws" /\ wk[w].e # 0) => wk[w].e = wk[w].last

\* two frames on one connection, the first answered with an error frame and
\* the second being processed
C17_Witness ==
    \E e \in Exchanges :
        /\ ex[e].prev # 0
        /\ ex[ex[e].prev].events = <<"error">>
        /\ ex[e].userMsg # 0

====
